---------------------------- MODULE Spec2Model ----------------------------
(***************************************************************************)
(* A model of the 404 checker's redirect-suggestion core                   *)
(* (src/backend/app.py): the sitemap cache (fetch_sitemap), the URL        *)
(* matcher (find_best_redirect) and the batch handler (check_urls).        *)
(*                                                                         *)
(* Strings are sequences of one-character strings, so that urlparse,       *)
(* lower, unquote, split and difflib's SequenceMatcher are computed the    *)
(* way the library computes them.  Scores are exact rationals <<n, d>> in  *)
(* lowest terms (the code uses IEEE doubles; the URLs of the model are     *)
(* chosen so that both arithmetics agree on every comparison made).        *)
(***************************************************************************)
EXTENDS Integers, Sequences, FiniteSets, TLC

(***************************************************************************)
(* Generic helpers on sequences.                                           *)
(***************************************************************************)
Range(s) == {s[i] : i \in DOMAIN s}

Min(a, b) == IF a <= b THEN a ELSE b

Max(a, b) == IF a >= b THEN a ELSE b

RECURSIVE Gcd(_, _)
Gcd(a, b) == IF b = 0 THEN a ELSE Gcd(b, a % b)

\* The first position k >= i of s holding a character of cs; Len(s) + 1 if none.
RECURSIVE IndexFrom(_, _, _)
IndexFrom(s, cs, i) ==
    IF i > Len(s) THEN Len(s) + 1
    ELSE IF s[i] \in cs THEN i
    ELSE IndexFrom(s, cs, i + 1)

\* Whether s holds t at position i; whether s starts with, or contains, t.
HasAt(s, t, i) ==
    /\ i + Len(t) - 1 <= Len(s)
    /\ \A k \in 1..Len(t) : s[i + k - 1] = t[k]

StartsWith(s, t) == HasAt(s, t, 1)

Contains(s, t) == \E i \in 1..(Len(s) + 1) : HasAt(s, t, i)

RECURSIVE SeqSum(_)
SeqSum(s) == IF s = <<>> THEN 0 ELSE Head(s) + SeqSum(Tail(s))

RECURSIVE Flatten(_)
Flatten(ss) == IF ss = <<>> THEN <<>> ELSE Head(ss) \o Flatten(Tail(ss))

(***************************************************************************)
(* Rationals <<n, d>>, d > 0, in lowest terms.                             *)
(***************************************************************************)
Rat(n, d) == LET g == Gcd(n, d) IN IF n = 0 THEN <<0, 1>> ELSE <<n \div g, d \div g>>

RAdd(p, q) == Rat(p[1] * q[2] + q[1] * p[2], p[2] * q[2])

RMul(p, q) == Rat(p[1] * q[1], p[2] * q[2])

RLess(p, q) == p[1] * q[2] < q[1] * p[2]

RLeq(p, q) == p[1] * q[2] <= q[1] * p[2]

Zero == <<0, 1>>


(***************************************************************************)
(* str.lower() and urllib.parse.unquote on ASCII text.                     *)
(***************************************************************************)
UpperChars == <<"A", "B", "C", "D", "E", "F", "G", "H", "I", "J", "K", "L", "M",
                "N", "O", "P", "Q", "R", "S", "T", "U", "V", "W", "X", "Y", "Z">>

LowerChars == <<"a", "b", "c", "d", "e", "f", "g", "h", "i", "j", "k", "l", "m",
                "n", "o", "p", "q", "r", "s", "t", "u", "v", "w", "x", "y", "z">>

LowerChar(c) ==
    IF c \in Range(UpperChars)
    THEN LowerChars[CHOOSE i \in DOMAIN UpperChars : UpperChars[i] = c]
    ELSE c

lower(s) == [i \in DOMAIN s |-> LowerChar(s[i])]

HexDigits == <<"0", "1", "2", "3", "4", "5", "6", "7", "8", "9",
               "a", "b", "c", "d", "e", "f">>

IsHex(c) == LowerChar(c) \in Range(HexDigits)

HexVal(c) == (CHOOSE i \in DOMAIN HexDigits : HexDigits[i] = LowerChar(c)) - 1

\* The printable ASCII characters, code points 32..126 in order (the double
\* quote, the backslash and the backquote are written out by name).
AsciiChars ==
    <<" ", "!", "dquote", "#", "$", "%", "&", "'", "(", ")", "*", "+", ",", "-", ".", "/",
      "0", "1", "2", "3", "4", "5", "6", "7", "8", "9", ":", ";", "<", "=", ">", "?",
      "@", "A", "B", "C", "D", "E", "F", "G", "H", "I", "J", "K", "L", "M", "N", "O",
      "P", "Q", "R", "S", "T", "U", "V", "W", "X", "Y", "Z", "[", "bslash", "]", "^", "_",
      "bquote", "a", "b", "c", "d", "e", "f", "g", "h", "i", "j", "k", "l", "m", "n", "o",
      "p", "q", "r", "s", "t", "u", "v", "w", "x", "y", "z", "{", "|", "}", "~">>

\* A %XX escape of a printable ASCII character is decoded; every other
\* character, and a "%" that starts no such escape, is kept (escapes of
\* other bytes are outside the model's alphabet).
IsEscapeAt(s, i) ==
    /\ s[i] = "%"
    /\ i + 2 <= Len(s)
    /\ IsHex(s[i + 1]) /\ IsHex(s[i + 2])
    /\ 16 * HexVal(s[i + 1]) + HexVal(s[i + 2]) \in 32..126

RECURSIVE UnquoteFrom(_, _)
UnquoteFrom(s, i) ==
    IF i > Len(s) THEN <<>>
    ELSE IF IsEscapeAt(s, i)
    THEN <<AsciiChars[16 * HexVal(s[i + 1]) + HexVal(s[i + 2]) - 31]>>
             \o UnquoteFrom(s, i + 3)
    ELSE <<s[i]>> \o UnquoteFrom(s, i + 1)

unquote(s) == UnquoteFrom(s, 1)

(***************************************************************************)
(* urllib.parse.urlparse of "scheme://netloc/path;params?query#fragment".  *)
(***************************************************************************)
\* The path without ";params", which urlparse splits from the last segment
LastSlash(path) ==
    CHOOSE k \in 0..Len(path) :
        /\ k = 0 \/ path[k] = "/"
        /\ \A m \in (k + 1)..Len(path) : path[m] # "/"

StripParams(path) == SubSeq(path, 1, IndexFrom(path, {";"}, LastSlash(path) + 1) - 1)

\* after: the URL from the end of the netloc on
ParsePath(scheme, netloc, after) ==
    [scheme |-> scheme,
     netloc |-> netloc,
     path   |-> StripParams(SubSeq(after, 1, IndexFrom(after, {"?", "#"}, 1) - 1))]

\* rest: the URL after "scheme:"; the netloc follows "//" and ends at ne
ParseNetloc(scheme, rest, ne) ==
    ParsePath(scheme, SubSeq(rest, 3, ne - 1), SubSeq(rest, ne, Len(rest)))

ParseRest(scheme, rest) ==
    IF StartsWith(rest, <<"/", "/">>)
    THEN ParseNetloc(scheme, rest, IndexFrom(rest, {"/", "?", "#"}, 3))
    ELSE ParsePath(scheme, <<>>, rest)

\* se: the position of the first ":" (a URL without one has no scheme)
ParseScheme(url, se) ==
    IF se <= Len(url)
    THEN ParseRest(lower(SubSeq(url, 1, se - 1)), SubSeq(url, se + 1, Len(url)))
    ELSE ParseRest(<<>>, url)

urlparse(url) == ParseScheme(url, IndexFrom(url, {":"}, 1))

\* f"{parsed.scheme}://{parsed.netloc}"
Origin(parsed) == parsed.scheme \o <<":", "/", "/">> \o parsed.netloc

BaseDomain(url) == Origin(urlparse(url))

\* [s for s in path.split('/') if s]
RECURSIVE SegmentsFrom(_, _)
SegmentsFrom(path, i) ==
    IF i > Len(path) THEN <<>>
    ELSE LET j == IndexFrom(path, {"/"}, i)
         IN  IF j = i THEN SegmentsFrom(path, i + 1)
             ELSE <<SubSeq(path, i, j - 1)>> \o SegmentsFrom(path, j + 1)

Segments(path) == SegmentsFrom(path, 1)

\* unquote(parsed.path.lower())
DecodedPath(url) == unquote(lower(urlparse(url).path))

\* parsed.netloc.split('.')[0] if '.' in parsed.netloc else ''
FirstLabel(netloc) ==
    IF "." \in Range(netloc)
    THEN SubSeq(netloc, 1, IndexFrom(netloc, {"."}, 1) - 1)
    ELSE <<>>

Subdomain(url) == FirstLabel(urlparse(url).netloc)

(***************************************************************************)
(* difflib.SequenceMatcher(None, a, b).ratio(), without junk (texts under  *)
(* 200 characters): the longest matching block, earliest in a then in b,   *)
(* then the same to its left and to its right.                             *)
(***************************************************************************)
RECURSIVE RunLen(_, _, _, _, _, _)
RunLen(a, b, i, j, ahi, bhi) ==
    IF i > ahi \/ j > bhi THEN 0
    ELSE IF a[i] # b[j] THEN 0
    ELSE 1 + RunLen(a, b, i + 1, j + 1, ahi, bhi)

\* The length of the common run at each pair of positions
RunTable(a, b, alo, ahi, blo, bhi) ==
    [p \in (alo..ahi) \X (blo..bhi) |-> RunLen(a, b, p[1], p[2], ahi, bhi)]

Longest(run) == CHOOSE n \in Range(run) : \A p \in DOMAIN run : run[p] <= n

\* Of the runs of length k, the one earliest in a, and of those the
\* earliest in b
EarliestBlock(run, k) ==
    CHOOSE p \in DOMAIN run :
        /\ run[p] = k
        /\ \A q \in DOMAIN run :
               run[q] = k => (p[1] < q[1] \/ (p[1] = q[1] /\ p[2] <= q[2]))

\* <<i, j, k>>: a[i..i+k-1] = b[j..j+k-1] within a[alo..ahi], b[blo..bhi],
\* both not empty
BlockOf(run, k) == EarliestBlock(run, k) \o <<k>>

LongestBlock(run) == BlockOf(run, Longest(run))

find_longest_match(a, b, alo, ahi, blo, bhi) ==
    LongestBlock(RunTable(a, b, alo, ahi, blo, bhi))

\* The total size of get_matching_blocks() over a[alo..ahi], b[blo..bhi]:
\* the block m, then the blocks to its left and to its right
RECURSIVE MatchingSize(_, _, _, _, _, _)
RECURSIVE SizeAround(_, _, _, _, _, _, _)
SizeAround(a, b, alo, ahi, blo, bhi, m) ==
    IF m[3] = 0 THEN 0
    ELSE m[3] + MatchingSize(a, b, alo, m[1] - 1, blo, m[2] - 1)
              + MatchingSize(a, b, m[1] + m[3], ahi, m[2] + m[3], bhi)

MatchingSize(a, b, alo, ahi, blo, bhi) ==
    IF alo > ahi \/ blo > bhi THEN 0
    ELSE SizeAround(a, b, alo, ahi, blo, bhi,
                    find_longest_match(a, b, alo, ahi, blo, bhi))

\* 2.0 * matches / (len(a) + len(b)), and 1.0 for two empty texts.
ratio(a, b) ==
    IF Len(a) + Len(b) = 0 THEN <<1, 1>>
    ELSE Rat(2 * MatchingSize(a, b, 1, Len(a), 1, Len(b)), Len(a) + Len(b))


(***************************************************************************)
(* The texts of the model.  Str* are fragments; the URLs are built from    *)
(* them, character by character.                                           *)
(***************************************************************************)
StrHttps == <<"h", "t", "t", "p", "s", ":", "/", "/">>

StrHttp == <<"h", "t", "t", "p">>

StrExCom == <<"e", "x", ".", "c", "o", "m">>

StrBlog == <<"b", "l", "o", "g">>

StrService == <<"s", "e", "r", "v", "i", "c", "e">>

StrServices == <<"s", "e", "r", "v", "i", "c", "e", "s">>

StrCategor == <<"c", "a", "t", "e", "g", "o", "r">>

StrCategory == <<"c", "a", "t", "e", "g", "o", "r", "y">>

StrCategories == <<"c", "a", "t", "e", "g", "o", "r", "i", "e", "s">>

StrLocation == <<"l", "o", "c", "a", "t", "i", "o", "n">>

StrKategorie == <<"k", "a", "t", "e", "g", "o", "r", "i", "e">>

StrCategoria == <<"c", "a", "t", "e", "g", "o", "r", "i", "a">>

StrSitemapXml == <<"/", "s", "i", "t", "e", "m", "a", "p", ".", "x", "m", "l">>

\* 'categoría', '범주', 'ປະເພດ': one token for each character outside ASCII
StrCategoriaAcute == <<"c", "a", "t", "e", "g", "o", "r", "U+00ED", "a">>

StrBeomju == <<"U+BC94", "U+C8FC">>

StrPrapheth == <<"U+0E9B", "U+0EB0", "U+0EC0", "U+0E9E", "U+0E94">>

\* Python's None where a text is expected: no text holds this token
None == <<"None">>

Truthy(x) == x # None /\ x # <<>>

Home == StrHttps \o StrExCom

OldPath == <<"/", "b", "l", "o", "g", "/", "o", "l", "d", "-", "p", "o", "s", "t">>

Old == StrHttps \o StrExCom \o OldPath

NewPath == <<"/", "b", "l", "o", "g", "/", "n", "e", "w", "-", "p", "o", "s", "t">>

New == StrHttps \o StrExCom \o NewPath

AboutPath == <<"/", "a", "b", "o", "u", "t">>

About == StrHttps \o StrExCom \o AboutPath

WwwNew == StrHttps \o <<"w", "w", "w", ".">> \o StrExCom \o NewPath

ShoppingPath == <<"/", "s", "h", "o", "p", "p", "i", "n", "g">>

Shopping == StrHttps \o StrExCom \o ShoppingPath

ShopPath == <<"/", "s", "h", "o", "p">>

Shop == StrHttps \o StrExCom \o ShopPath

EnBlogPath == <<"/", "B", "l", "o", "g", "/", "a", "%", "2", "F", "b">>

EnBlog == StrHttps \o <<"e", "n", ".">> \o StrExCom \o EnBlogPath

ServicesSeoPath == <<"/", "s", "e", "r", "v", "i", "c", "e", "s", "/", "s", "e", "o">>

ServicesSeo == StrHttps \o StrExCom \o ServicesSeoPath

\* A path that has the same segment twice
SeoSeo == StrHttps \o StrExCom \o <<"/", "s", "e", "o", "/", "s", "e", "o">>

CategorySeoServicesPath ==
    <<"/", "c", "a", "t", "e", "g", "o", "r", "y", "/", "s", "e", "o", "-", "s", "e", "r",
      "v", "i", "c", "e", "s">>

CategorySeoServices == StrHttps \o StrExCom \o CategorySeoServicesPath

KategorieSeoPath == <<"/", "k", "a", "t", "e", "g", "o", "r", "i", "e", "/", "s", "e", "o">>

KategorieSeo == StrHttps \o StrExCom \o KategorieSeoPath


(***************************************************************************)
(* find_best_redirect: the score of one sitemap URL against the broken     *)
(* URL, signal by signal, and the scan that keeps the best one.            *)
(***************************************************************************)
SupportedLocales ==
    {<<"c", "s">>, <<"k", "o">>, <<"l", "o">>, <<"d", "a">>, <<"e", "s">>, <<"j", "a">>,
     <<"z", "h", "-", "c", "n">>, <<"a", "r">>, <<"t", "l">>, <<"s", "v">>, <<"f", "i">>,
     <<"d", "e">>, <<"e", "n">>, <<"r", "o">>, <<"i", "t">>, <<"v", "i">>}

LocaleKeywords == {StrBlog, StrServices, StrCategory, StrLocation}

BrokenStopwords ==
    {StrKategorie, StrCategoria, StrCategoriaAcute, StrBeomju, StrPrapheth}

SitemapStopwords == {StrCategory, StrCategories}

WeightSegments == <<2, 5>>

WeightSimilarity == <<7, 20>>

WeightLocale == <<1, 10>>

BonusBlog == <<3, 20>>

BonusService == <<1, 10>>

BonusCategory == <<1, 10>>

WeightContent == <<1, 5>>

Threshold == <<1, 4>>

\* len(set(xs) & set(ys)) / max(len(xs), len(ys)) * weight, when they meet
OverlapShare(xs, ys, weight) ==
    LET common == Range(xs) \cap Range(ys)
    IN  IF common # {}
        THEN RMul(Rat(Cardinality(common), Max(Len(xs), Len(ys))), weight)
        ELSE Zero

\* 1. Path segment matching
SegmentOverlap(broken_segments, sitemap_segments) ==
    IF broken_segments # <<>> /\ sitemap_segments # <<>>
    THEN OverlapShare(broken_segments, sitemap_segments, WeightSegments)
    ELSE Zero

\* 2. String similarity of the whole path
PathSimilarity(broken_path, sitemap_path) ==
    RMul(ratio(broken_path, sitemap_path), WeightSimilarity)

\* 3. Language/locale patterns in the path
LocaleBonus(broken_subdomain, sitemap_path) ==
    IF /\ broken_subdomain \in SupportedLocales
       /\ \E lang_keyword \in LocaleKeywords : Contains(sitemap_path, lang_keyword)
    THEN WeightLocale
    ELSE Zero

\* A keyword counted when one of the two sides has it
EitherHas(broken_segments, sitemap_segments, word) ==
    \/ \E i \in DOMAIN broken_segments : Contains(broken_segments[i], word)
    \/ \E i \in DOMAIN sitemap_segments : Contains(sitemap_segments[i], word)

BothHave(broken_segments, sitemap_segments, word) ==
    /\ \E i \in DOMAIN broken_segments : Contains(broken_segments[i], word)
    /\ \E i \in DOMAIN sitemap_segments : Contains(sitemap_segments[i], word)

\* 4. Bonus for matching keywords in segments
KeywordBonus(broken_segments, sitemap_segments) ==
    IF broken_segments # <<>> /\ sitemap_segments # <<>>
    THEN RAdd(IF StrBlog \in Range(broken_segments) /\ StrBlog \in Range(sitemap_segments)
              THEN BonusBlog ELSE Zero,
         RAdd(IF BothHave(broken_segments, sitemap_segments, StrService)
              THEN BonusService ELSE Zero,
              IF BothHave(broken_segments, sitemap_segments, StrCategor)
              THEN BonusCategory ELSE Zero))
    ELSE Zero

\* 5. The main content part, ignoring language-specific segments
ContentOverlap(broken_segments, sitemap_segments) ==
    IF broken_segments # <<>> /\ sitemap_segments # <<>>
    THEN LET broken_content  == SelectSeq(broken_segments,
                                          LAMBDA seg : seg \notin BrokenStopwords)
             sitemap_content == SelectSeq(sitemap_segments,
                                          LAMBDA seg : seg \notin SitemapStopwords)
         IN  IF broken_content # <<>> /\ sitemap_content # <<>>
             THEN OverlapShare(broken_content, sitemap_content, WeightContent)
             ELSE Zero
    ELSE Zero

\* The body of the loop over sitemap_urls, up to "if score > best_score"
SumSignals(broken_path, broken_segments, broken_subdomain, sitemap_path, sitemap_segments) ==
    RAdd(SegmentOverlap(broken_segments, sitemap_segments),
    RAdd(PathSimilarity(broken_path, sitemap_path),
    RAdd(LocaleBonus(broken_subdomain, sitemap_path),
    RAdd(KeywordBonus(broken_segments, sitemap_segments),
         ContentOverlap(broken_segments, sitemap_segments)))))

ScoreOfPaths(broken_path, broken_subdomain, sitemap_path) ==
    SumSignals(broken_path, Segments(broken_path), broken_subdomain,
               sitemap_path, Segments(sitemap_path))

CandidateScore(broken_url, sitemap_url) ==
    ScoreOfPaths(DecodedPath(broken_url), Subdomain(broken_url),
                 DecodedPath(sitemap_url))

\* A scan that lets an equal score replace the running best
KeepBestOnTie(best, sitemap_url, score) ==
    IF RLeq(best[2], score) THEN <<sitemap_url, score>> ELSE best

\* "if score > best_score": the running best <<best_match, best_score>>
KeepBest(best, sitemap_url, score) ==
    IF RLess(best[2], score) THEN <<sitemap_url, score>> ELSE best

RECURSIVE ScanCandidates(_, _, _, _)
ScanCandidates(broken_url, sitemap_urls, i, best) ==
    IF i > Len(sitemap_urls) THEN best
    ELSE ScanCandidates(broken_url, sitemap_urls, i + 1,
             KeepBest(best, sitemap_urls[i],
                      CandidateScore(broken_url, sitemap_urls[i])))

\* A threshold that a score of exactly 0.25 does not pass
AboveThresholdStrict(best) ==
    IF RLess(Threshold, best[2]) THEN best ELSE <<None, Zero>>

\* "if best_score >= 0.25: return best_match, best_score", else None, 0.0
AboveThreshold(best) == IF RLeq(Threshold, best[2]) THEN best ELSE <<None, Zero>>

find_best_redirect(broken_url, sitemap_urls) ==
    IF sitemap_urls = <<>> THEN <<None, Zero>>
    ELSE AboveThreshold(ScanCandidates(broken_url, sitemap_urls, 1, <<None, Zero>>))


(***************************************************************************)
(* fetch_sitemap.  The network is the environment: a request is answered   *)
(* by a document, or fails (requests.get raises, or the body is not XML    *)
(* and ET.fromstring raises).  A document is what the two findall queries  *)
(* see of it: its <url><loc> texts and its <sitemap><loc> texts.           *)
(***************************************************************************)
TTL == 300

NetError == [ok |-> FALSE, locs |-> <<>>, sitemaps |-> <<>>]

Xml(locs, sitemaps) == [ok |-> TRUE, locs |-> locs, sitemaps |-> sitemaps]

\* d[k] = v on a dict
Put(d, k, v) == [x \in DOMAIN d \cup {k} |-> IF x = k THEN v ELSE d[x]]

\* d.get(k, default)
Get(d, k, default) == IF k \in DOMAIN d THEN d[k] ELSE default

\* A cache that gives an entry up a second early
CacheFreshShort(sitemap_url, cache, cache_time, current_time) ==
    /\ sitemap_url \in DOMAIN cache
    /\ current_time - Get(cache_time, sitemap_url, 0) < TTL - 1

\* A cache that keeps an entry of age 300 s
CacheFreshLong(sitemap_url, cache, cache_time, current_time) ==
    /\ sitemap_url \in DOMAIN cache
    /\ current_time - Get(cache_time, sitemap_url, 0) <= TTL

\* "if sitemap_url in sitemap_cache: if current_time - ...get(sitemap_url, 0) < 300"
CacheFresh(sitemap_url, cache, cache_time, current_time) ==
    /\ sitemap_url \in DOMAIN cache
    /\ current_time - Get(cache_time, sitemap_url, 0) < TTL

\* A loop that returns what it has collected when a child fails
RECURSIVE ExpandIndexKeep(_, _, _, _, _)
ExpandIndexKeep(children, kids, i, urls, requests) ==
    IF i > Len(children) THEN [ok |-> TRUE, urls |-> urls, requests |-> requests]
    ELSE IF ~kids[i].ok
    THEN [ok |-> TRUE, urls |-> urls, requests |-> Append(requests, children[i])]
    ELSE ExpandIndexKeep(children, kids, i + 1, urls \o kids[i].locs,
                         Append(requests, children[i]))

\* A loop that puts each child's URLs in front of the earlier ones
RECURSIVE ExpandIndexFront(_, _, _, _, _)
ExpandIndexFront(children, kids, i, urls, requests) ==
    IF i > Len(children) THEN [ok |-> TRUE, urls |-> urls, requests |-> requests]
    ELSE IF ~kids[i].ok
    THEN [ok |-> FALSE, urls |-> urls, requests |-> Append(requests, children[i])]
    ELSE ExpandIndexFront(children, kids, i + 1, kids[i].locs \o urls,
                          Append(requests, children[i]))

\* The loop over the index's children, from child i on: kids[i] answers the
\* request for children[i].  A failure leaves the loop by the exception.
RECURSIVE ExpandIndex(_, _, _, _, _)
ExpandIndex(children, kids, i, urls, requests) ==
    IF i > Len(children) THEN [ok |-> TRUE, urls |-> urls, requests |-> requests]
    ELSE IF ~kids[i].ok
    THEN [ok |-> FALSE, urls |-> urls, requests |-> Append(requests, children[i])]
    ELSE ExpandIndex(children, kids, i + 1, urls \o kids[i].locs,
                     Append(requests, children[i]))

\* The children of a document requested whether or not it has URLs of its own
TryFetchAlsoIndex(sitemap_url, top, kids) ==
    IF ~top.ok THEN [ok |-> FALSE, urls |-> <<>>, requests |-> <<sitemap_url>>]
    ELSE ExpandIndex(top.sitemaps, kids, 1, top.locs, <<sitemap_url>>)

\* The try block: top answers the request for sitemap_url
TryFetch(sitemap_url, top, kids) ==
    IF ~top.ok THEN [ok |-> FALSE, urls |-> <<>>, requests |-> <<sitemap_url>>]
    ELSE IF top.locs # <<>>
    THEN [ok |-> TRUE, urls |-> top.locs, requests |-> <<sitemap_url>>]
    ELSE ExpandIndex(top.sitemaps, kids, 1, <<>>, <<sitemap_url>>)

\* A failure that is returned as the empty list but not cached
CachedNoFailure(sitemap_url, cache, cache_time, current_time, try) ==
    IF try.ok
    THEN [urls |-> try.urls,
          cache |-> Put(cache, sitemap_url, try.urls),
          cache_time |-> Put(cache_time, sitemap_url, current_time),
          requests |-> try.requests, raised |-> FALSE]
    ELSE [urls |-> <<>>, cache |-> cache, cache_time |-> cache_time,
          requests |-> try.requests, raised |-> FALSE]

\* After the try block: its list is cached and returned, or, on an
\* exception, the empty list ("except Exception" lets none out)
Cached(sitemap_url, cache, cache_time, current_time, try) ==
    IF try.ok
    THEN [urls |-> try.urls,
          cache |-> Put(cache, sitemap_url, try.urls),
          cache_time |-> Put(cache_time, sitemap_url, current_time),
          requests |-> try.requests, raised |-> FALSE]
    ELSE [urls |-> <<>>,
          cache |-> Put(cache, sitemap_url, <<>>),
          cache_time |-> Put(cache_time, sitemap_url, current_time),
          requests |-> try.requests, raised |-> FALSE]

\* What the call returns (urls), the two dicts after it, the requests it
\* sent, and whether an exception left it (raised).
fetch_sitemap(sitemap_url, cache, cache_time, current_time, top, kids) ==
    IF CacheFresh(sitemap_url, cache, cache_time, current_time)
    THEN [urls |-> cache[sitemap_url], cache |-> cache, cache_time |-> cache_time,
          requests |-> <<>>, raised |-> FALSE]
    ELSE Cached(sitemap_url, cache, cache_time, current_time,
                TryFetch(sitemap_url, top, kids))

SitemapXml == Home \o StrSitemapXml

SitemapIndexXml == Home \o <<"/", "s", "i", "t", "e", "m", "a", "p", "_", "i", "n", "d", "e", "x", ".", "x", "m", "l">>

ChildA == Home \o <<"/", "a", ".", "x", "m", "l">>

ChildB == Home \o <<"/", "b", ".", "x", "m", "l">>


(***************************************************************************)
(* check_url and the three passes of check_urls over the results.          *)
(***************************************************************************)
\* 'status_code': None
NoStatus == 0

\* 'error': str(e) of a RequestException; requests gives each a message
ErrTimeout == "timed out"

NoError == "None"

\* What the network gave check_url: a response (its status and final URL),
\* or a RequestException (raised)
Response(status_code, final_url) ==
    [raised |-> FALSE, status_code |-> status_code, final_url |-> final_url]

Failure == [raised |-> TRUE, status_code |-> NoStatus, final_url |-> None]

\* What a future holds when its call raised instead of returning
Exception(url) == [original_url |-> url, exception |-> TRUE]

IsException(result) == "exception" \in DOMAIN result

\* A check without the except clause
check_urlNoCatch(url, outcome, checked_at) ==
    IF ~outcome.raised
    THEN [original_url |-> url,
          status_code  |-> outcome.status_code,
          final_url    |-> outcome.final_url,
          is_404       |-> outcome.status_code = 404,
          error        |-> NoError,
          checked_at   |-> checked_at]
    ELSE Exception(url)

\* A check that flags a RequestException like a 404
check_urlFlagsFailure(url, outcome, checked_at) ==
    [original_url |-> url,
     status_code  |-> IF outcome.raised THEN NoStatus ELSE outcome.status_code,
     final_url    |-> IF outcome.raised THEN None ELSE outcome.final_url,
     is_404       |-> outcome.raised \/ outcome.status_code = 404,
     error        |-> IF outcome.raised THEN ErrTimeout ELSE NoError,
     checked_at   |-> checked_at]

\* A 404 reported with an error text as well
check_url404IsError(url, outcome, checked_at) ==
    IF ~outcome.raised
    THEN [original_url |-> url,
          status_code  |-> outcome.status_code,
          final_url    |-> outcome.final_url,
          is_404       |-> outcome.status_code = 404,
          error        |-> IF outcome.status_code = 404 THEN ErrTimeout ELSE NoError,
          checked_at   |-> checked_at]
    ELSE [original_url |-> url,
          status_code  |-> NoStatus,
          final_url    |-> None,
          is_404       |-> FALSE,
          error        |-> ErrTimeout,
          checked_at   |-> checked_at]

check_url(url, outcome, checked_at) ==
    IF ~outcome.raised
    THEN [original_url |-> url,
          status_code  |-> outcome.status_code,
          final_url    |-> outcome.final_url,
          is_404       |-> outcome.status_code = 404,
          error        |-> NoError,
          checked_at   |-> checked_at]
    ELSE [original_url |-> url,
          status_code  |-> NoStatus,
          final_url    |-> None,
          is_404       |-> FALSE,
          error        |-> ErrTimeout,
          checked_at   |-> checked_at]

\* r[k] = v on a result dict, and r.get(k) being truthy for a flag
Set(r, k, v) == [x \in DOMAIN r \cup {k} |-> IF x = k THEN v ELSE r[x]]

Has(r, k) == k \in DOMAIN r

\* A loop that resolves the 404 results alone
QualifiesOnly404(result) == result.is_404

\* A loop without the condition: every result is resolved
QualifiesAll(result) == TRUE

\* "if result['is_404'] or (result['status_code'] and result['status_code'] >= 400)"
Qualifies(result) ==
    \/ result.is_404
    \/ (result.status_code # NoStatus /\ result.status_code >= 400)

\* result.get('final_url') or result['original_url']
UrlToCheck(result) ==
    IF Truthy(result.final_url) THEN result.final_url ELSE result.original_url

\* The sitemap URL of a result: the request's sitemap_url resolved against
\* the base domain, or the default
SitemapUrlFor(override, base_domain) ==
    IF Truthy(override)
    THEN IF StartsWith(override, <<"/">>) THEN base_domain \o override
         ELSE IF StartsWith(override, StrHttp) THEN override
         ELSE base_domain \o <<"/">> \o override
    ELSE base_domain \o StrSitemapXml

\* round(score, 2): the nearest hundredth, the even one of two equally near
Round2(q) ==
    LET scaled == (q[1] * 100) \div q[2]
        rest   == (q[1] * 100) % q[2]
        h      == IF 2 * rest > q[2] THEN scaled + 1
                  ELSE IF 2 * rest < q[2] THEN scaled
                  ELSE IF scaled % 2 = 0 THEN scaled ELSE scaled + 1
    IN  Rat(h, 100)

StrCannotAccess == <<"C", "a", "n", "n", "o", "t", " ", "a", "c", "c", "e", "s", "s", " ", "s", "i", "t", "e", "m", "a", "p", " ", "a", "t", " ">>

\* A fallback to the base domain without the slash
SuggestNoSlash(result, base_domain, found) ==
    IF Truthy(found[1])
    THEN Set(Set(result, "suggested_redirect", found[1]),
             "match_score", Round2(found[2]))
    ELSE Set(Set(result, "suggested_redirect", base_domain), "match_score", Zero)

\* A resolver that suggests the homepage whatever the matcher found
SuggestHome(result, base_domain, found) ==
    Set(Set(result, "suggested_redirect", base_domain \o <<"/">>), "match_score", Zero)

\* A fallback to the URL that was checked
SuggestOriginal(result, base_domain, found) ==
    IF Truthy(found[1])
    THEN Set(Set(result, "suggested_redirect", found[1]),
             "match_score", Round2(found[2]))
    ELSE Set(Set(result, "suggested_redirect", result.original_url), "match_score", Zero)

\* "if suggested_url:" on what find_best_redirect returned
Suggest(result, base_domain, found) ==
    IF Truthy(found[1])
    THEN Set(Set(result, "suggested_redirect", found[1]),
             "match_score", Round2(found[2]))
    ELSE Set(Set(result, "suggested_redirect", base_domain \o <<"/">>),
             "match_score", Zero)

Matched(result, base_domain, found) ==
    [matched |-> TRUE, found |-> found, result |-> Suggest(result, base_domain, found)]

\* A resolver that calls the matcher on an empty list too
AnnotateAlways(result, url_to_check, base_domain, sitemap_url, fetched_urls) ==
    Matched(result, base_domain, find_best_redirect(url_to_check, fetched_urls))

\* The branch taken on the list fetch_sitemap returned: the result as
\* annotated, and whether find_best_redirect was called (found: its value)
\* The sitemap error reported together with the homepage as a suggestion
AnnotateErrorWithHome(result, url_to_check, base_domain, sitemap_url, fetched_urls) ==
    IF fetched_urls # <<>>
    THEN Matched(result, base_domain, find_best_redirect(url_to_check, fetched_urls))
    ELSE [matched |-> FALSE,
          found   |-> <<None, Zero>>,
          result  |->
              Set(Set(Set(Set(result, "suggested_redirect", base_domain \o <<"/">>),
                          "match_score", Zero),
                      "sitemap_error", TRUE),
                  "sitemap_error_message", StrCannotAccess \o sitemap_url)]

Annotate(result, url_to_check, base_domain, sitemap_url, fetched_urls) ==
    IF fetched_urls # <<>>
    THEN Matched(result, base_domain, find_best_redirect(url_to_check, fetched_urls))
    ELSE [matched |-> FALSE,
          found   |-> <<None, Zero>>,
          result  |->
              Set(Set(Set(Set(result, "suggested_redirect", None),
                          "match_score", Zero),
                      "sitemap_error", TRUE),
                  "sitemap_error_message", StrCannotAccess \o sitemap_url)]

\* One turn of the loop for a failing result, after the call of
\* fetch_sitemap: what the turn used and what it made of the result
ResolveFetched(result, url_to_check, base_domain, sitemap_url, fetched) ==
    [url_to_check |-> url_to_check,
     base_domain  |-> base_domain,
     sitemap_url  |-> sitemap_url,
     fetched      |-> fetched,
     done         |-> Annotate(result, url_to_check, base_domain, sitemap_url,
                               fetched.urls)]

\* A summary whose other_status leaves the errors in
SummaryErrorsAsOther(rs) ==
    LET total      == Len(rs)
        status_404 == Cardinality({i \in DOMAIN rs : rs[i].is_404})
        status_200 == Cardinality({i \in DOMAIN rs : rs[i].status_code = 200})
        errors     == Cardinality({i \in DOMAIN rs : rs[i].error # NoError /\ rs[i].error # ""})
    IN  [total            |-> total,
         status_404       |-> status_404,
         status_200       |-> status_200,
         errors           |-> errors,
         other_status     |-> total - status_404 - status_200,
         with_suggestions |->
             Cardinality({i \in DOMAIN rs : Has(rs[i], "suggested_redirect")
                                               /\ Truthy(rs[i].suggested_redirect)}),
         sitemap_errors   |->
             Cardinality({i \in DOMAIN rs : Has(rs[i], "sitemap_error")
                                               /\ rs[i].sitemap_error})]

\* The summary dict of check_urls
Summary(rs) ==
    LET total      == Len(rs)
        status_404 == Cardinality({i \in DOMAIN rs : rs[i].is_404})
        status_200 == Cardinality({i \in DOMAIN rs : rs[i].status_code = 200})
        errors     == Cardinality({i \in DOMAIN rs : rs[i].error # NoError /\ rs[i].error # ""})
    IN  [total            |-> total,
         status_404       |-> status_404,
         status_200       |-> status_200,
         errors           |-> errors,
         other_status     |-> total - status_404 - status_200 - errors,
         with_suggestions |->
             Cardinality({i \in DOMAIN rs : Has(rs[i], "suggested_redirect")
                                               /\ Truthy(rs[i].suggested_redirect)}),
         sitemap_errors   |->
             Cardinality({i \in DOMAIN rs : Has(rs[i], "sitemap_error")
                                               /\ rs[i].sitemap_error})]


(***************************************************************************)
(* The state.                                                              *)
(***************************************************************************)
VARIABLES
    now,                \* time.time(), in seconds
    sitemap_cache,      \* the module's dict: sitemap URL -> list of URLs
    sitemap_cache_time, \* the module's dict: sitemap URL -> time of the fetch
    call,               \* the last fetch_sitemap call, as its caller saw it
    lastNet,            \* per sitemap URL, the last call that used the network
    broken_url,         \* find_best_redirect's arguments and what it
    sitemap_urls,       \*   returned ("pending" before the call)
    redirect,
    phase,              \* of the check_urls request being served
    request,            \* its body: urls, max_workers, sitemap_url
    checks,             \* per URL: "queued", "running" or "done"
    sent,               \* per URL of the batch: the requests started for it
    outcomes,           \* per finished check: what the network gave it
    results,            \* the list gather returns, then annotated in place
    idx,                \* the position of the loop over the results
    resolved,           \* per annotated result: what the resolver used
    summary,
    handlers,           \* per request handler on the event loop: its position
    loop                \* the handler that runs on the event loop, or 0

vars == <<now, sitemap_cache, sitemap_cache_time, call, lastNet,
          broken_url, sitemap_urls, redirect,
          phase, request, checks, sent, outcomes, results, idx, resolved, summary,
          handlers, loop>>

storeVars == <<sitemap_cache, sitemap_cache_time, call, lastNet>>

matchVars == <<broken_url, sitemap_urls, redirect>>

requestVars == <<phase, request, checks, sent, outcomes, results, idx, resolved, summary>>

loopVars == <<handlers, loop>>

batchVars == <<requestVars, loopVars>>

(***************************************************************************)
(* The bounds of the model and the environment's choices.                  *)
(***************************************************************************)
MaxTime == 301

MaxUrls == 2

MaxWorkers == 2

MaxCandidates == 2

SummaryBatch == 10

\* Of a summary's batch, at most so many 404, 500 and failed checks
Max404 == 3

Max500 == 1

MaxFailures == 2

\* Requests served at once by the event loop
MaxHandlers == 2

\* The clock moves by one of these: just under, at, and just over the TTL
TickSteps == {TTL - 1, TTL, TTL + 1}

SitemapKeys == {SitemapXml, SitemapIndexXml}

\* A URL with a scheme and a host
IsAbsolute(url) == urlparse(url).scheme # <<>> /\ urlparse(url).netloc # <<>>

\* What a request for a sitemap URL may be answered with: /sitemap.xml is a
\* plain sitemap, if anything; /sitemap_index.xml an index, with or without
\* URLs of its own (the page that is gone still among them)
TopDocs(sitemap_url) ==
    IF ~IsAbsolute(sitemap_url)
    THEN {NetError}   \* requests.get raises MissingSchema
    ELSE IF sitemap_url = SitemapIndexXml
    THEN {NetError, Xml(<<>>, <<ChildA, ChildB>>), Xml(<<Shop, Old>>, <<ChildA>>)}
    ELSE {NetError, Xml(<<>>, <<>>), Xml(<<New, About>>, <<>>)}

\* ... and a request for a child of an index: a.xml is a plain sitemap or
\* an index itself, b.xml a plain sitemap, if anything
KidDocs(child_url) ==
    IF child_url = ChildA
    THEN {NetError, Xml(<<New, About>>, <<>>), Xml(<<>>, <<ChildB>>)}
    ELSE {NetError, Xml(<<Shop>>, <<>>)}

\* kids[i] answers the request for the index's i-th child
KidAnswers(top) ==
    {kids \in [1..Len(top.sitemaps) -> UNION {KidDocs(c) : c \in Range(top.sitemaps)}] :
         \A i \in 1..Len(top.sitemaps) : kids[i] \in KidDocs(top.sitemaps[i])}

BoundedSeq(S, n) == UNION {[1..k -> S] : k \in 0..n}

InputUrls == {Old, Shopping}

\* The request's sitemap_url: absent, or a path on the checked host
Overrides == {None, SubSeq(SitemapIndexXml, Len(Home) + 1, Len(SitemapIndexXml))}

\* What the network may give check_url for a URL: a status at that URL, an
\* error status after a redirect to another host, or a failure
CheckOutcomes(url) ==
    {Response(200, url), Response(404, url), Response(500, EnBlog), Failure}

MatchBroken ==
    {Old, Shopping, Home, EnBlog, ServicesSeo, KategorieSeo, SeoSeo, CategorySeoServices}

MatchCandidates ==
    {New, WwwNew, About, Shop, ServicesSeo, CategorySeoServices, Home, SeoSeo}

NoCall == [url |-> None, at |-> 0, age |-> -1, hit |-> FALSE, requests |-> <<>>,
           responses |-> <<>>, urls |-> <<>>, raised |-> FALSE]

NoRequest == [urls |-> <<>>, max_workers |-> 0, sitemap_url |-> None]

NoSummary == [total |-> 0, status_404 |-> 0, status_200 |-> 0, errors |-> 0,
              other_status |-> 0, with_suggestions |-> 0, sitemap_errors |-> 0]

Pending == <<None, <<0, 0>>>>

StoreStart ==
    /\ sitemap_cache = <<>>
    /\ sitemap_cache_time = <<>>
    /\ call = NoCall
    /\ lastNet = <<>>

MatchIdle ==
    /\ broken_url = None
    /\ sitemap_urls = <<>>
    /\ redirect = Pending

RequestIdle ==
    /\ phase = "idle"
    /\ request = NoRequest
    /\ checks = <<>>
    /\ results = <<>>
    /\ idx = 0
    /\ resolved = <<>>
    /\ summary = NoSummary
    /\ sent = <<>>
    /\ outcomes = <<>>

BatchIdle == RequestIdle /\ handlers = <<>> /\ loop = 0

(***************************************************************************)
(* The clock and the sitemap store.                                        *)
(***************************************************************************)
Tick ==
    /\ \E d \in TickSteps : now + d <= MaxTime /\ now' = now + d
    /\ UNCHANGED <<storeVars, matchVars, batchVars>>

\* The answers to the requests a call sent
Answers(fetched, top, kids) == SubSeq(<<top>> \o kids, 1, Len(fetched.requests))

Failed(responses) == \E i \in DOMAIN responses : ~responses[i].ok

\* What the caller of fetch_sitemap saw: the requests and their answers, and
\* how old the cache's entry was at the call (-1 without an entry)
CallSeen(sitemap_url, fetched, top, kids) ==
    [url       |-> sitemap_url,
     at        |-> now,
     age       |-> IF sitemap_url \in DOMAIN sitemap_cache
                   THEN now - Get(sitemap_cache_time, sitemap_url, 0) ELSE -1,
     hit       |-> fetched.requests = <<>>,
     requests  |-> fetched.requests,
     responses |-> Answers(fetched, top, kids),
     urls      |-> fetched.urls,
     raised    |-> fetched.raised]

\* The store after the call fetch_sitemap(sitemap_url) at time now
StoreAfter(sitemap_url, fetched, top, kids) ==
    /\ sitemap_cache' = fetched.cache
    /\ sitemap_cache_time' = fetched.cache_time
    /\ call' = CallSeen(sitemap_url, fetched, top, kids)
    /\ lastNet' = IF fetched.requests = <<>> THEN lastNet
                  ELSE Put(lastNet, sitemap_url,
                           [at     |-> now,
                            urls   |-> fetched.urls,
                            failed |-> Failed(Answers(fetched, top, kids))])

CallFetchSitemap ==
    /\ \E sitemap_url \in SitemapKeys : \E top \in TopDocs(sitemap_url) :
       \E kids \in KidAnswers(top) :
           StoreAfter(sitemap_url,
                      fetch_sitemap(sitemap_url, sitemap_cache, sitemap_cache_time,
                                    now, top, kids),
                      top, kids)
    /\ UNCHANGED <<now, matchVars, batchVars>>

InitStore == now = 0 /\ StoreStart /\ MatchIdle /\ BatchIdle

NextStore == Tick \/ CallFetchSitemap

SpecStore == InitStore /\ [][NextStore]_vars

(***************************************************************************)
(* Properties of the sitemap store.  The children an index lists are other *)
(* documents than the index itself.                                        *)
(***************************************************************************)
\* A step that is a call fetch_sitemap(u)
IsCall(u) == call' # call /\ call'.url = u

Occurrences(s, x) == Cardinality({i \in DOMAIN s : s[i] = x})

\* C1: a call of fetch_sitemap(u) less than 300 seconds after the last call
\* for u that went to the network sends no request and returns the list that
\* call returned; u was fetched once by the two calls.
C1_HitWithinTTL ==
    [][\A u \in SitemapKeys :
          (/\ IsCall(u)
           /\ u \in DOMAIN lastNet
           /\ now - lastNet[u].at < TTL)
          => /\ call'.requests = <<>>
             /\ call'.urls = lastNet[u].urls
             /\ lastNet' = lastNet]_vars

C1_Witness ==
    /\ call.url \in DOMAIN lastNet
    /\ call.at - lastNet[call.url].at = TTL - 1
    /\ call.requests = <<>>
    /\ call.urls = lastNet[call.url].urls
    /\ call.urls # <<>>

\* C2: a call of fetch_sitemap(u) that finds an entry of age 300 seconds or
\* more fetches u from the network, once, and the entry's list and timestamp
\* become the result and the time of this call.
C2_StaleRefetched ==
    [][\A u \in SitemapKeys :
          (/\ IsCall(u)
           /\ u \in DOMAIN sitemap_cache
           /\ now - sitemap_cache_time[u] >= TTL)
          => /\ call'.requests # <<>>
             /\ call'.requests[1] = u
             /\ Occurrences(call'.requests, u) = 1
             /\ sitemap_cache'[u] = call'.urls
             /\ sitemap_cache_time'[u] = now]_vars

C2_Witness ==
    /\ call.url # None
    /\ call.age = TTL + 1
    /\ Occurrences(call.requests, call.url) = 1
    /\ call.urls # <<>>
    /\ sitemap_cache[call.url] = call.urls
    /\ sitemap_cache_time[call.url] = call.at

\* C3: no exception leaves fetch_sitemap.  When a request of the call fails
\* (the sitemap's or a child's, by transport or by parsing), the call returns
\* the empty list and caches it with the time of the call; a call for the
\* same URL less than 300 seconds later returns the empty list without a
\* request.
C3_FailureCachedEmpty ==
    [][\A u \in SitemapKeys :
          IsCall(u)
          => /\ ~call'.raised
             /\ Failed(call'.responses)
                => /\ call'.urls = <<>>
                   /\ sitemap_cache'[u] = <<>>
                   /\ sitemap_cache_time'[u] = now
             /\ (/\ u \in DOMAIN lastNet
                 /\ lastNet[u].failed
                 /\ now - lastNet[u].at < TTL)
                => /\ call'.requests = <<>>
                   /\ call'.urls = <<>>]_vars

\* The second child of an index failed after the first gave URLs ...
C3_Witness ==
    /\ call.url = SitemapIndexXml
    /\ Len(call.responses) = 3
    /\ call.responses[2].locs # <<>>
    /\ ~call.responses[3].ok
    /\ call.urls = <<>>
    /\ sitemap_cache[call.url] = <<>>
    /\ ~call.raised

\* ... and a later call within the 300 seconds got the cached empty list
C3_WitnessLater ==
    /\ call.url \in DOMAIN lastNet
    /\ lastNet[call.url].failed
    /\ call.at - lastNet[call.url].at = TTL - 1
    /\ call.requests = <<>>
    /\ call.urls = <<>>

\* C4: a call that goes to the network and gets a document without
\* <url><loc> entries requests the children the document lists, one after
\* another in the listed order, and, all answering, returns their <url><loc>
\* values in that order, each child's in document order.
C4_IndexOrder ==
    (/\ call.url # None
     /\ call.requests # <<>>
     /\ ~Failed(call.responses)
     /\ call.responses[1].locs = <<>>)
    => /\ call.requests = <<call.url>> \o call.responses[1].sitemaps
       /\ call.urls = Flatten([i \in 1..(Len(call.responses) - 1) |->
                                 call.responses[i + 1].locs])

C4_Witness ==
    /\ call.url = SitemapIndexXml
    /\ call.requests = <<SitemapIndexXml, ChildA, ChildB>>
    /\ call.responses[2].locs = <<New, About>>
    /\ call.responses[3].locs = <<Shop>>
    /\ call.urls = <<New, About, Shop>>

(***************************************************************************)
(* The matcher on its own: any broken URL against any candidate list.      *)
(***************************************************************************)
InitMatch ==
    /\ now = 0 /\ StoreStart /\ BatchIdle
    /\ broken_url \in MatchBroken
    /\ sitemap_urls \in BoundedSeq(MatchCandidates, MaxCandidates)
    /\ redirect = Pending

CallFindBestRedirect ==
    /\ redirect = Pending
    /\ redirect' = find_best_redirect(broken_url, sitemap_urls)
    /\ UNCHANGED <<now, storeVars, broken_url, sitemap_urls, batchVars>>

NextMatch == CallFindBestRedirect

SpecMatch == InitMatch /\ [][NextMatch]_vars

(***************************************************************************)
(* Properties of the matcher.                                              *)
(***************************************************************************)
\* The cumulative scores of the candidates of a list, in the list's order
ScoresOf(broken, candidates) ==
    [i \in 1..Len(candidates) |-> CandidateScore(broken, candidates[i])]

IsMax(scores, i) == \A j \in DOMAIN scores : RLeq(scores[j], scores[i])

\* The answer is candidate i with its score, the highest of the list
IsBest(answer, candidates, scores) ==
    \E i \in DOMAIN scores :
        IsMax(scores, i) /\ answer = <<candidates[i], scores[i]>>

ThresholdRule(answer, candidates, scores) ==
    IF \E i \in DOMAIN scores : RLeq(Threshold, scores[i])
    THEN IsBest(answer, candidates, scores)
    ELSE answer = <<None, Zero>>

\* C5: find_best_redirect returns a candidate of the highest cumulative
\* score together with that score when the highest score is 0.25 or more,
\* and (None, 0.0) when it is less or the list is empty.
C5_Threshold ==
    redirect # Pending
    => ThresholdRule(redirect, sitemap_urls, ScoresOf(broken_url, sitemap_urls))

\* The highest score is exactly 0.25
C5_Witness ==
    /\ broken_url = Shopping
    /\ sitemap_urls = <<About, Shop>>
    /\ CandidateScore(Shopping, Shop) = Threshold
    /\ redirect = <<Shop, Threshold>>

\* The highest score is under 0.25
C5_WitnessBelow ==
    /\ broken_url = Old
    /\ sitemap_urls = <<About, Shop>>
    /\ redirect = <<None, Zero>>

\* The answer is the first candidate of the list with the answer's score
FirstOfBest(answer, candidates, scores) ==
    \E i \in DOMAIN scores :
        /\ answer = <<candidates[i], scores[i]>>
        /\ \A j \in 1..(i - 1) : RLess(scores[j], scores[i])

\* C6: of several candidates with the highest score, find_best_redirect
\* returns the one that comes first in the list.
C6_FirstWinsTie ==
    (redirect # Pending /\ redirect[1] # None)
    => /\ IsBest(redirect, sitemap_urls, ScoresOf(broken_url, sitemap_urls))
       /\ FirstOfBest(redirect, sitemap_urls, ScoresOf(broken_url, sitemap_urls))

C6_Witness ==
    /\ broken_url = Old
    /\ sitemap_urls = <<WwwNew, New>>
    /\ CandidateScore(Old, WwwNew) = CandidateScore(Old, New)
    /\ redirect[1] = WwwNew


(***************************************************************************)
(* POST /api/check-urls: the checks in the pool, then the loop that        *)
(* annotates the failing results, then the summary.                        *)
(***************************************************************************)
Init == now = 0 /\ StoreStart /\ MatchIdle /\ BatchIdle

Running == {i \in DOMAIN checks : checks[i] = "running"}

Submit ==
    /\ phase = "idle"
    /\ \E urls \in BoundedSeq(InputUrls, MaxUrls) : \E max_workers \in 1..MaxWorkers :
       \E sitemap_url \in Overrides :
           /\ request' = [urls |-> urls, max_workers |-> max_workers,
                          sitemap_url |-> sitemap_url]
           /\ checks' = [i \in DOMAIN urls |-> "queued"]
           /\ sent' = [i \in DOMAIN urls |-> 0]
    /\ phase' = "checking"
    /\ UNCHANGED <<now, loopVars, outcomes, storeVars, matchVars, results, idx, resolved, summary>>

\* A thread per submitted call, whatever max_workers says
StartCheckUnbounded ==
    /\ phase = "checking"
    /\ \E i \in DOMAIN checks :
           /\ checks[i] = "queued"
           /\ \A j \in 1..(i - 1) : checks[j] # "queued"
           /\ checks' = [checks EXCEPT ![i] = "running"]
           /\ sent' = [sent EXCEPT ![i] = @ + 1]
    /\ UNCHANGED <<now, loopVars, outcomes, storeVars, matchVars, phase, request, results, idx,
                   resolved, summary>>

\* Threads that take one call each and no other after it
StartCheckNoReuse ==
    /\ phase = "checking"
    /\ Cardinality({i \in DOMAIN checks : checks[i] # "queued"}) < request.max_workers
    /\ \E i \in DOMAIN checks :
           /\ checks[i] = "queued"
           /\ \A j \in 1..(i - 1) : checks[j] # "queued"
           /\ checks' = [checks EXCEPT ![i] = "running"]
           /\ sent' = [sent EXCEPT ![i] = @ + 1]
    /\ UNCHANGED <<now, loopVars, outcomes, storeVars, matchVars, phase, request, results, idx,
                   resolved, summary>>

\* A pool thread takes the oldest queued call, while fewer than max_workers
\* run, and enters check_url, which starts its requests.get
StartCheck ==
    /\ phase = "checking"
    /\ Cardinality(Running) < request.max_workers
    /\ \E i \in DOMAIN checks :
           /\ checks[i] = "queued"
           /\ \A j \in 1..(i - 1) : checks[j] # "queued"
           /\ checks' = [checks EXCEPT ![i] = "running"]
           /\ sent' = [sent EXCEPT ![i] = @ + 1]
    /\ UNCHANGED <<now, loopVars, outcomes, storeVars, matchVars, phase, request, results, idx,
                   resolved, summary>>

\* Results kept per URL instead of per future: the place of a URL's first
\* occurrence
FirstOf(urls, i) == CHOOSE j \in 1..i : urls[j] = urls[i] /\ \A k \in 1..(j - 1) : urls[k] # urls[i]

FinishCheckByUrl ==
    /\ phase = "checking"
    /\ \E i \in Running : \E outcome \in CheckOutcomes(request.urls[i]) :
           /\ results' = Put(results, FirstOf(request.urls, i),
                             check_url(request.urls[i], outcome, now))
           /\ outcomes' = Put(outcomes, FirstOf(request.urls, i), outcome)
           /\ checks' = [checks EXCEPT ![i] = "done"]
    /\ UNCHANGED <<now, loopVars, sent, storeVars, matchVars, phase, request, idx, resolved, summary>>

\* check_url with a retry: after a failed request it starts another one
FinishCheckRetry ==
    /\ phase = "checking"
    /\ \E i \in Running : \E outcome \in CheckOutcomes(request.urls[i]) :
           IF outcome.raised /\ sent[i] < 2
           THEN /\ sent' = [sent EXCEPT ![i] = @ + 1]
                /\ UNCHANGED <<results, outcomes, checks>>
           ELSE /\ results' = Put(results, i, check_url(request.urls[i], outcome, now))
                /\ outcomes' = Put(outcomes, i, outcome)
                /\ checks' = [checks EXCEPT ![i] = "done"]
                /\ sent' = sent
    /\ UNCHANGED <<now, loopVars, storeVars, matchVars, phase, request, idx, resolved, summary>>

FinishCheck ==
    /\ phase = "checking"
    /\ \E i \in Running : \E outcome \in CheckOutcomes(request.urls[i]) :
           /\ results' = Put(results, i, check_url(request.urls[i], outcome, now))
           /\ outcomes' = Put(outcomes, i, outcome)
           /\ checks' = [checks EXCEPT ![i] = "done"]
    /\ UNCHANGED <<now, loopVars, sent, storeVars, matchVars, phase, request, idx, resolved, summary>>

\* "results = await asyncio.gather(*futures)": every future is done; the
\* exception of a call that raised leaves the await and ends the request
Gather ==
    /\ phase = "checking"
    /\ \A i \in DOMAIN checks : checks[i] = "done"
    /\ phase' = IF \E i \in DOMAIN results : IsException(results[i])
                THEN "failed" ELSE "resolving"
    /\ idx' = 1
    /\ UNCHANGED <<now, loopVars, sent, outcomes, storeVars, matchVars, request, checks,
                   results, resolved, summary>>

\* The state after one turn of the loop on result idx
Resolved(step, top, kids) ==
    /\ StoreAfter(step.sitemap_url, step.fetched, top, kids)
    /\ IF step.fetched.raised
       THEN \* the exception ends the request
            /\ phase' = "failed"
            /\ UNCHANGED <<matchVars, results, resolved>>
       ELSE /\ phase' = phase
            /\ results' = [results EXCEPT ![idx] = step.done.result]
            /\ resolved' = Put(resolved, idx,
                               [url_to_check |-> step.url_to_check,
                                base_domain  |-> step.base_domain,
                                sitemap_url  |-> step.sitemap_url,
                                fetched_urls |-> step.fetched.urls,
                                requests     |-> step.fetched.requests,
                                matched      |-> step.done.matched])
            /\ IF step.done.matched
               THEN /\ broken_url' = step.url_to_check
                    /\ sitemap_urls' = step.fetched.urls
                    /\ redirect' = step.done.found
               ELSE UNCHANGED matchVars

\* One turn for a failing result: the network answers fetch_sitemap's requests
ResolveWith(result, url_to_check, base_domain, sitemap_url) ==
    \E top \in TopDocs(sitemap_url) : \E kids \in KidAnswers(top) :
        Resolved(ResolveFetched(result, url_to_check, base_domain, sitemap_url,
                                fetch_sitemap(sitemap_url, sitemap_cache,
                                              sitemap_cache_time, now, top, kids)),
                 top, kids)

ResolveOn(result, url_to_check, base_domain) ==
    ResolveWith(result, url_to_check, base_domain,
                SitemapUrlFor(request.sitemap_url, base_domain))

ResolveResult(result, url_to_check) ==
    IF Truthy(url_to_check)
    THEN ResolveOn(result, url_to_check, BaseDomain(url_to_check))
    ELSE UNCHANGED <<storeVars, matchVars, phase, results, resolved>>

\* One turn of "for result in results"
ResolveNext ==
    /\ phase = "resolving"
    /\ idx <= Len(results)
    /\ idx' = idx + 1
    /\ IF Qualifies(results[idx])
       THEN ResolveResult(results[idx], UrlToCheck(results[idx]))
       ELSE UNCHANGED <<storeVars, matchVars, phase, results, resolved>>
    /\ UNCHANGED <<now, loopVars, sent, outcomes, request, checks, summary>>

\* The summary taken while the loop over the results is still on its way
SummarizeEarly ==
    /\ phase = "resolving"
    /\ summary' = Summary(results)
    /\ phase' = "done"
    /\ UNCHANGED <<now, loopVars, sent, outcomes, storeVars, matchVars, request, checks, results, idx, resolved>>

Summarize ==
    /\ phase = "resolving"
    /\ idx > Len(results)
    /\ summary' = Summary(results)
    /\ phase' = "done"
    /\ UNCHANGED <<now, loopVars, sent, outcomes, storeVars, matchVars, request, checks, results, idx, resolved>>

Next ==
    \/ Tick
    \/ Submit
    \/ StartCheck
    \/ FinishCheck
    \/ Gather
    \/ ResolveNext
    \/ Summarize

Spec == Init /\ [][Next]_vars

(***************************************************************************)
(* Properties of the resolver.  resolved[i] is what the loop's turn on     *)
(* result i used; the loop has annotated the results before idx.           *)
(***************************************************************************)
\* base is scheme://netloc of a URL with a path
IsOriginOf(base, url) ==
    /\ StartsWith(url, base \o <<"/">>)
    /\ Occurrences(base, "/") = 2

NoneReaches(scores) == \A j \in DOMAIN scores : RLess(scores[j], Threshold)

Fallback(result, used) ==
    /\ IsOriginOf(used.base_domain, used.url_to_check)
    /\ result.suggested_redirect = used.base_domain \o <<"/">>
    /\ result.match_score = Zero
    /\ ~Has(result, "sitemap_error")

\* C7: a failing result for which fetch_sitemap returned a non-empty list
\* with no candidate of score 0.25 or more gets suggested_redirect =
\* base_domain + "/" and match_score = 0.0, and no sitemap_error.
C7_HomepageFallback ==
    \A i \in DOMAIN resolved :
        (/\ resolved[i].fetched_urls # <<>>
         /\ NoneReaches(ScoresOf(resolved[i].url_to_check, resolved[i].fetched_urls)))
        => Fallback(results[i], resolved[i])

C7_Witness ==
    /\ 1 \in DOMAIN resolved
    /\ results[1].status_code = 404
    /\ resolved[1].url_to_check = Shopping
    /\ resolved[1].fetched_urls = <<New, About>>
    /\ results[1].suggested_redirect = Home \o <<"/">>
    /\ results[1].match_score = Zero

SitemapError(result, used) ==
    /\ Has(result, "sitemap_error") /\ Has(result, "sitemap_error_message")
    /\ result.sitemap_error = TRUE
    /\ result.suggested_redirect = None
    /\ result.match_score = Zero
    /\ result.sitemap_error_message = StrCannotAccess \o used.sitemap_url
    /\ ~used.matched

\* C8: a failing result for which fetch_sitemap returned the empty list
\* (the fetch failed, or the sitemap is empty) gets sitemap_error = True,
\* suggested_redirect = None, match_score = 0.0 and a message with the
\* sitemap's URL, and find_best_redirect is not called for it; no other
\* result has sitemap_error, so none has it with a suggested_redirect.
C8_SitemapError ==
    /\ \A i \in DOMAIN resolved :
           resolved[i].fetched_urls = <<>> => SitemapError(results[i], resolved[i])
    /\ \A i \in DOMAIN results :
           Has(results[i], "sitemap_error")
           => /\ i \in DOMAIN resolved
              /\ resolved[i].fetched_urls = <<>>
              /\ results[i].suggested_redirect = None

\* The sitemap's request failed
C8_Witness ==
    /\ 1 \in DOMAIN resolved
    /\ call.url = resolved[1].sitemap_url
    /\ Failed(call.responses)
    /\ resolved[1].fetched_urls = <<>>
    /\ results[1].sitemap_error = TRUE
    /\ results[1].sitemap_error_message = StrCannotAccess \o SitemapXml

\* C10: the batch of the one URL https://ex.com/blog/old-post, answered by
\* 404, with https://ex.com/sitemap.xml listing https://ex.com/blog/new-post
\* and https://ex.com/about, gives one result, with suggested_redirect =
\* https://ex.com/blog/new-post and a match_score over 0.25, and no
\* sitemap_error.
C10_EndToEnd ==
    (/\ phase = "done"
     /\ request.urls = <<Old>>
     /\ results[1].status_code = 404
     /\ results[1].final_url = Old
     /\ call.url = SitemapXml
     /\ call.responses = <<Xml(<<New, About>>, <<>>)>>)
    => /\ Len(results) = 1
       /\ results[1].suggested_redirect = New
       /\ RLess(Threshold, results[1].match_score)
       /\ ~Has(results[1], "sitemap_error")

C10_Witness ==
    /\ phase = "done"
    /\ request.urls = <<Old>>
    /\ results[1].status_code = 404
    /\ call.url = SitemapXml
    /\ call.responses = <<Xml(<<New, About>>, <<>>)>>
    /\ results[1].suggested_redirect = New
    /\ results[1].match_score = Rat(72, 100)

(***************************************************************************)
(* The summary of a batch of SummaryBatch URLs: the checks are gathered,   *)
(* some answered by 404, one perhaps by 500, some failed by transport, the *)
(* others answered by 200; the loop and the summary follow.                *)
(***************************************************************************)
Repeat(x, n) == [i \in 1..n |-> x]

\* The gathered results of a batch with the given numbers of outcomes
Gathered(n404, n500, nErr) ==
    Repeat(check_url(Old, Response(404, Old), 0), n404)
    \o Repeat(check_url(Old, Response(200, Old), 0), SummaryBatch - n404 - n500 - nErr)
    \o Repeat(check_url(Old, Response(500, EnBlog), 0), n500)
    \o Repeat(check_url(Old, Failure, 0), nErr)

GatheredOutcomes(n404, n500, nErr) ==
    Repeat(Response(404, Old), n404)
    \o Repeat(Response(200, Old), SummaryBatch - n404 - n500 - nErr)
    \o Repeat(Response(500, EnBlog), n500)
    \o Repeat(Failure, nErr)

InitSummary ==
    /\ now = 0 /\ StoreStart /\ MatchIdle
    /\ phase = "resolving"
    /\ request = [urls |-> Repeat(Old, SummaryBatch), max_workers |-> MaxWorkers,
                  sitemap_url |-> None]
    /\ checks = Repeat("done", SummaryBatch)
    /\ sent = Repeat(1, SummaryBatch)
    /\ \E n404 \in 0..Max404 : \E n500 \in 0..Max500 : \E nErr \in 0..MaxFailures :
           /\ results = Gathered(n404, n500, nErr)
           /\ outcomes = GatheredOutcomes(n404, n500, nErr)
    /\ handlers = <<>> /\ loop = 0
    /\ idx = 1
    /\ resolved = <<>>
    /\ summary = NoSummary

NextSummary == ResolveNext \/ Summarize

SpecSummary == InitSummary /\ [][NextSummary]_vars

\* check_url's except branch alone leaves the status None
IsTransportFailure(result) == result.status_code = NoStatus

\* How many results have the status
WithStatus(rs, status_code) ==
    Cardinality({i \in DOMAIN rs : rs[i].status_code = status_code})

TransportFailures(rs) == Cardinality({i \in DOMAIN rs : IsTransportFailure(rs[i])})

Counted(s, rs) ==
    /\ s.total = Len(rs)
    /\ s.status_404 = WithStatus(rs, 404)
    /\ s.status_200 = WithStatus(rs, 200)
    /\ s.errors = TransportFailures(rs)
    /\ s.other_status = s.total - s.status_404 - s.status_200 - s.errors

TenExample(rs) ==
    /\ Len(rs) = 10
    /\ WithStatus(rs, 404) = 3
    /\ WithStatus(rs, 200) = 5
    /\ TransportFailures(rs) = 2

\* C9: the summary gives total = the number of results, status_404 and
\* status_200 = the numbers of results of status 404 and 200, errors = the
\* number of transport failures and other_status = total - status_404 -
\* status_200 - errors; ten results with three 404, five 200 and two
\* transport failures give 10, 3, 5, 2 and 0.
C9_SummaryCounts ==
    phase = "done"
    => /\ Counted(summary, results)
       /\ TenExample(results)
          => /\ summary.total = 10
             /\ summary.status_404 = 3
             /\ summary.status_200 = 5
             /\ summary.errors = 2
             /\ summary.other_status = 0

C9_Witness ==
    /\ phase = "done"
    /\ TenExample(results)
    /\ summary.total = 10
    /\ summary.status_404 = 3
    /\ summary.status_200 = 5
    /\ summary.errors = 2
    /\ summary.other_status = 0

Annotated(result) ==
    \/ Has(result, "sitemap_error")
    \/ Has(result, "suggested_redirect") /\ Truthy(result.suggested_redirect)

HttpError(result) == result.status_code # NoStatus /\ result.status_code >= 400

One == <<1, 1>>

\* C13: the match_score of a result, when it has one, is at least 0 and at
\* most 1.
C13_ScoreInUnitInterval ==
    \A i \in DOMAIN results :
        Has(results[i], "match_score")
        => RLeq(Zero, results[i].match_score) /\ RLeq(results[i].match_score, One)

\* C14: a check that fails by transport raises nothing: its result has the
\* error text, and no status and no final URL; no request ends by an
\* exception, and the gathered results hold one result for each URL, the
\* other URLs' with the status the network gave.
C14_TransportFailureIsData ==
    /\ phase # "failed"
    /\ \A i \in DOMAIN results :
           outcomes[i].raised
           => /\ ~IsException(results[i])
              /\ results[i].error = ErrTimeout
              /\ results[i].status_code = NoStatus
              /\ results[i].final_url = None
    /\ phase \in {"resolving", "done"}
       => /\ DOMAIN results = DOMAIN request.urls
          /\ \A i \in DOMAIN results :
                 ~outcomes[i].raised
                 => results[i].status_code = outcomes[i].status_code

C14_Witness ==
    /\ phase = "done"
    /\ Len(results) = 2
    /\ outcomes[1].raised
    /\ results[1].error = ErrTimeout
    /\ results[2].status_code = 404
    /\ summary.total = 2

\* How often a URL is the original_url of a result
ResultsFor(rs, url) == Cardinality({i \in DOMAIN rs : rs[i].original_url = url})

\* C15: the gathered results hold each input URL as original_url as often
\* as the request lists it, in whatever order the checks finished, and the
\* summary's total is the number of input URLs.
C15_OneResultPerUrl ==
    /\ phase \in {"resolving", "done"}
       => /\ Len(results) = Len(request.urls)
          /\ \A url \in InputUrls :
                 ResultsFor(results, url) = Occurrences(request.urls, url)
    /\ phase = "done" => summary.total = Len(request.urls)

\* The same URL twice, the second check finished before the first
C15_Witness ==
    /\ phase = "done"
    /\ request.urls = <<Old, Old>>
    /\ results[2].checked_at < results[1].checked_at
    /\ ResultsFor(results, Old) = 2
    /\ summary.total = 2

(***************************************************************************)
(* Requests served at once.  Each handler is a coroutine of the one event  *)
(* loop (check_urls is "async def"; fetch_sitemap is called from its loop  *)
(* over the results, which has no await): a handler that has begun a call  *)
(* of fetch_sitemap keeps the event loop until the call returns.  The call *)
(* is taken statement by statement: the cache check, the requests, the     *)
(* write of the list, the write of the time.                               *)
(***************************************************************************)
Waiting == [pc |-> "idle", url |-> None, current_time |-> 0, urls |-> <<>>,
            failed |-> FALSE]

\* A scheduler of threads: any handler runs at any time
MayRunAnytime(h, running) == TRUE

\* The event loop runs handler h when no other handler holds it
MayRun(h, running) == running = 0 \/ running = h

\* "current_time = time.time()"
BeginFetch ==
    /\ \E h \in DOMAIN handlers : \E sitemap_url \in SitemapKeys :
           /\ handlers[h].pc = "idle"
           /\ MayRun(h, loop)
           /\ handlers' = [handlers EXCEPT ![h] =
                  [pc |-> "check", url |-> sitemap_url, current_time |-> now,
                   urls |-> <<>>, failed |-> FALSE]]
           /\ loop' = h
    /\ UNCHANGED <<now, storeVars, matchVars, requestVars>>

\* "if sitemap_url in sitemap_cache: if ... < 300: return sitemap_cache[...]"
CheckCache ==
    /\ \E h \in DOMAIN handlers :
           /\ handlers[h].pc = "check"
           /\ MayRun(h, loop)
           /\ IF CacheFresh(handlers[h].url, sitemap_cache, sitemap_cache_time,
                            handlers[h].current_time)
              THEN /\ handlers' = [handlers EXCEPT ![h] = Waiting]
                   /\ loop' = 0
              ELSE /\ handlers' = [handlers EXCEPT ![h].pc = "fetch"]
                   /\ loop' = loop
    /\ UNCHANGED <<now, storeVars, matchVars, requestVars>>

\* The try block up to "# Cache the result", or up to the exception
Fetched(handler, try) ==
    [handler EXCEPT !.pc = "write_list",
                    !.urls = IF try.ok THEN try.urls ELSE <<>>,
                    !.failed = ~try.ok]

FetchDocuments ==
    /\ \E h \in DOMAIN handlers : \E top \in TopDocs(handlers[h].url) :
       \E kids \in KidAnswers(top) :
           /\ handlers[h].pc = "fetch"
           /\ MayRun(h, loop)
           /\ handlers' = [handlers EXCEPT ![h] =
                  Fetched(handlers[h], TryFetch(handlers[h].url, top, kids))]
    /\ UNCHANGED <<now, storeVars, matchVars, requestVars, loop>>

\* "sitemap_cache[sitemap_url] = urls" (or = [])
WriteList ==
    /\ \E h \in DOMAIN handlers :
           /\ handlers[h].pc = "write_list"
           /\ MayRun(h, loop)
           /\ sitemap_cache' = Put(sitemap_cache, handlers[h].url, handlers[h].urls)
           /\ lastNet' = Put(lastNet, handlers[h].url,
                             [at     |-> handlers[h].current_time,
                              urls   |-> handlers[h].urls,
                              failed |-> handlers[h].failed])
           /\ handlers' = [handlers EXCEPT ![h].pc = "write_time"]
    /\ UNCHANGED <<now, sitemap_cache_time, call, matchVars, requestVars, loop>>

\* "sitemap_cache_time[sitemap_url] = current_time", and the return
WriteTime ==
    /\ \E h \in DOMAIN handlers :
           /\ handlers[h].pc = "write_time"
           /\ MayRun(h, loop)
           /\ sitemap_cache_time' = Put(sitemap_cache_time, handlers[h].url,
                                        handlers[h].current_time)
           /\ handlers' = [handlers EXCEPT ![h] = Waiting]
           /\ loop' = 0
    /\ UNCHANGED <<now, sitemap_cache, call, lastNet, matchVars, requestVars>>

InitLoop ==
    /\ now = 0 /\ StoreStart /\ MatchIdle /\ RequestIdle
    /\ handlers = [h \in 1..MaxHandlers |-> Waiting]
    /\ loop = 0

NextLoop ==
    \/ Tick
    \/ BeginFetch
    \/ CheckCache
    \/ FetchDocuments
    \/ WriteList
    \/ WriteTime

SpecLoop == InitLoop /\ [][NextLoop]_vars

\* The entry of a sitemap URL is whole: absent from both dicts, or the list
\* and the time that one call wrote
Whole(sitemap_url) ==
    IF sitemap_url \in DOMAIN sitemap_cache
    THEN /\ sitemap_url \in DOMAIN sitemap_cache_time
         /\ sitemap_url \in DOMAIN lastNet
         /\ sitemap_cache[sitemap_url] = lastNet[sitemap_url].urls
         /\ sitemap_cache_time[sitemap_url] = lastNet[sitemap_url].at
    ELSE sitemap_url \notin DOMAIN sitemap_cache_time

\* C17: whenever a call of fetch_sitemap reads the cache, with other calls
\* for the same URL under way, the entry it reads is whole: never a list
\* with the time of another write or without a time.
C17_ReadsWholeEntry ==
    [][\A h \in DOMAIN handlers :
          (handlers[h].pc = "check" /\ handlers'[h].pc # "check")
          => Whole(handlers[h].url)]_vars

\* A call reads the whole entry that an earlier call wrote for the same URL,
\* finds it stale, and is about to replace it
C17_Witness ==
    \E h \in DOMAIN handlers :
        /\ handlers[h].pc = "check"
        /\ handlers[h].url \in DOMAIN sitemap_cache
        /\ Whole(handlers[h].url)
        /\ ~CacheFresh(handlers[h].url, sitemap_cache, sitemap_cache_time,
                       handlers[h].current_time)

(***************************************************************************)
(* The pool and the order of the phases of a batch                         *)
(***************************************************************************)
Queued == {i \in DOMAIN checks : checks[i] = "queued"}

Finished == {i \in DOMAIN checks : checks[i] = "done"}

\* C18: at every moment of a batch at most max_workers calls of check_url
\* are running, however many URLs were given; with more URLs than workers,
\* the calls started beyond the first max_workers are no more than the
\* calls that have finished.
C18_PoolBound ==
    phase # "idle"
    => /\ Cardinality(Running) <= request.max_workers
       /\ Cardinality(Running \cup Finished) - request.max_workers
              <= Cardinality(Finished)

\* More URLs than workers: the second call runs after the first has
\* finished and freed the only thread
C18_Witness ==
    /\ phase = "checking"
    /\ Len(request.urls) > request.max_workers
    /\ checks = <<"done", "running">>

\* More URLs than workers: one call runs and one waits for the thread
C18_WitnessWaiting ==
    /\ phase = "checking"
    /\ Len(request.urls) > request.max_workers
    /\ checks = <<"running", "queued">>

\* The resolver takes a step: it moves to another result, fetches a sitemap,
\* scores candidates or annotates a result
ResolverActs ==
    \/ idx' # idx
    \/ resolved' # resolved
    \/ storeVars' # storeVars
    \/ matchVars' # matchVars

\* Every health check of the batch has completed and left its result
AllChecked ==
    /\ \A i \in DOMAIN checks : checks[i] = "done"
    /\ DOMAIN results = DOMAIN request.urls

\* The loop has passed every result, and every qualifying one was resolved
ResolutionOver ==
    /\ idx > Len(request.urls)
    /\ \A i \in DOMAIN results \cap (1..(idx - 1)) :
           (Qualifies(results[i]) /\ Truthy(UrlToCheck(results[i])))
           => i \in DOMAIN resolved

\* C19: the phases of a batch are ordered: the resolver (and so every
\* sitemap fetch and every scoring) takes a step only when every health
\* check of the batch has completed, and the summary is computed only when
\* the resolver has finished with every qualifying result.
C19_PhasesOrdered ==
    [][/\ ResolverActs => AllChecked
       /\ (phase # "done" /\ phase' = "done") => ResolutionOver]_vars

\* A batch of two is done: both checks had finished before the second
\* result, which qualifies, was resolved, and then the summary was computed
C19_Witness ==
    /\ phase = "done"
    /\ Len(request.urls) = 2
    /\ AllChecked
    /\ 2 \in DOMAIN resolved
    /\ summary.total = 2

(***************************************************************************)
(* Progress of a batch.  Every request of check_url and of fetch_sitemap   *)
(* carries timeout=10, so a running call returns; a free pool thread takes *)
(* a queued call; the event loop resumes the handler when the futures are  *)
(* done and runs its loops, which have no await, to the return.            *)
(***************************************************************************)
\* A turn of "for result in results" seen on its counter alone: every step
\* of ResolveNext is one, and ResolveNext can take one whenever a result is
\* left
LoopTurn == phase = "resolving" /\ idx <= Len(results) /\ idx' = idx + 1

SpecLive ==
    /\ Init
    /\ [][Next]_vars
    /\ WF_vars(StartCheck)
    /\ WF_vars(FinishCheck)
    /\ WF_vars(Gather)
    /\ WF_idx(LoopTurn)
    /\ WF_vars(Summarize)

\* A check that failed by a timeout or another transport failure ended as
\* an error record
FailuresAreRecords ==
    \A i \in DOMAIN outcomes :
        outcomes[i].raised
        => /\ i \in DOMAIN results
           /\ ~IsException(results[i])
           /\ results[i].error = ErrTimeout
           /\ results[i].status_code = NoStatus

\* The batch is over: every check finished, no thread of the pool runs or
\* waits, and the results and their summary are returned
Completed ==
    /\ phase = "done"
    /\ AllChecked
    /\ Running = {} /\ Queued = {}
    /\ summary.total = Len(request.urls)
    /\ FailuresAreRecords

\* C20: every network call returning or timing out, a batch over a finite
\* list of URLs eventually completes: every check finishes, the pool is shut
\* down, results and summary are returned, and a timed-out check is an
\* error record that has not kept the other checks from running.
C20_BatchCompletes == (phase = "checking") ~> Completed

\* A batch of two on one thread has completed: the first check timed out
\* and is an error record, the second ran after it and got its answer
C20_Witness ==
    /\ Completed
    /\ request.max_workers = 1
    /\ Len(request.urls) = 2
    /\ outcomes[1].raised
    /\ results[1].error = ErrTimeout
    /\ results[2].status_code = 200

(***************************************************************************)
(* The requests of a batch                                                 *)
(***************************************************************************)
\* C21: check_url never retries: in a batch one request is started for each
\* input URL, once per occurrence; a check that has begun has started one
\* request, whether it got a good status, an error status or a transport
\* failure, and a check that waits has started none.
C21_OneRequestPerUrl ==
    phase # "idle"
    => /\ DOMAIN sent = DOMAIN request.urls
       /\ \A i \in DOMAIN sent :
              sent[i] = IF i \in DOMAIN checks /\ checks[i] = "queued" THEN 0 ELSE 1

\* The same URL given twice: the first check failed at the transport, the
\* second got an error status, and each started one request
C21_Witness ==
    /\ phase = "done"
    /\ Len(request.urls) = 2
    /\ request.urls[1] = request.urls[2]
    /\ outcomes[1].raised
    /\ ~outcomes[2].raised /\ outcomes[2].status_code = 404
    /\ sent = <<1, 1>>

(***************************************************************************)
(* The sitemap_url of the request in its forms.  One result has been       *)
(* gathered, a failing one, and the loop resolves it.                      *)
(***************************************************************************)
\* "/sitemap_index.xml"
PathOverride == SubSeq(SitemapIndexXml, Len(Home) + 1, Len(SitemapIndexXml))

\* "sitemap_index.xml"
BareOverride == SubSeq(SitemapIndexXml, Len(Home) + 2, Len(SitemapIndexXml))

\* "http.xml": a bare file name that begins with the letters of the scheme
BareHttp == StrHttp \o <<".", "x", "m", "l">>

OverrideForms == {None, <<>>, PathOverride, SitemapIndexXml, BareOverride, BareHttp}

InitOverride ==
    /\ now = 0 /\ StoreStart /\ MatchIdle
    /\ phase = "resolving"
    /\ \E url \in InputUrls : \E outcome \in {Response(404, url), Response(500, EnBlog)} :
       \E sitemap_url \in OverrideForms :
           /\ request = [urls |-> <<url>>, max_workers |-> 1, sitemap_url |-> sitemap_url]
           /\ results = <<check_url(url, outcome, 0)>>
           /\ outcomes = <<outcome>>
    /\ checks = <<"done">>
    /\ sent = <<1>>
    /\ handlers = <<>> /\ loop = 0
    /\ idx = 1
    /\ resolved = <<>>
    /\ summary = NoSummary

NextOverride == Tick \/ ResolveNext \/ Summarize

SpecOverride == InitOverride /\ [][NextOverride]_vars

\* The sitemap URL the statement gives for an override and a base domain
ConsultedFor(override, base_domain) ==
    IF ~Truthy(override) THEN base_domain \o StrSitemapXml
    ELSE IF IsAbsolute(override) THEN override
    ELSE IF StartsWith(override, <<"/">>) THEN base_domain \o override
    ELSE base_domain \o <<"/">> \o override

\* C22: the sitemap URL consulted for a failing result is base_domain +
\* "/sitemap.xml" without an override, the override itself when it is an
\* absolute URL, base_domain + override when it starts with "/", and
\* base_domain + "/" + override for any other, bare, override.
C22_SitemapUrlRule ==
    \A i \in DOMAIN resolved :
        resolved[i].sitemap_url = ConsultedFor(request.sitemap_url, resolved[i].base_domain)

(***************************************************************************)
(* The depth of the expansion of a sitemap index                           *)
(***************************************************************************)
\* The call went to the network and got a document
GotDocument == call.url # None /\ call.requests # <<>> /\ call.responses[1].ok

\* The requests after the first are for children the document lists, in
\* the listed order, and none is for a child of a child
ChildrenOnly ==
    call.requests =
        <<call.url>> \o SubSeq(call.responses[1].sitemaps, 1, Len(call.requests) - 1)

C23_WitnessOwnUrls ==
    /\ call.url = SitemapIndexXml
    /\ call.responses = <<Xml(<<Shop, Old>>, <<ChildA>>)>>
    /\ call.requests = <<SitemapIndexXml>>
    /\ call.urls = <<Shop, Old>>

(***************************************************************************)
(* What the resolver may change                                            *)
(***************************************************************************)
\* The keys check_url gives a result
CheckedKeys ==
    {"original_url", "status_code", "final_url", "is_404", "error", "checked_at"}

\* The result carries nothing of the resolver
Untouched(result) == DOMAIN result = CheckedKeys

\* The resolver left what check_url found as it was
SameFinding(before, after) ==
    /\ CheckedKeys \subseteq DOMAIN after
    /\ \A k \in CheckedKeys : after[k] = before[k]

\* C24: the resolver touches a result at most once, in the turn of the loop
\* that is at it, and only when it is failing (404 flag set or status_code
\* >= 400); a result with a status below 400 is returned with no
\* suggested_redirect, match_score or sitemap_error; and in every result
\* original_url, status_code, final_url, the 404 flag, the error text and
\* checked_at stay as check_url set them.
C24_ResolverFrame ==
    [][phase = "resolving"
       => /\ DOMAIN results' = DOMAIN results
          /\ \A i \in DOMAIN results :
                 /\ SameFinding(results[i], results'[i])
                 /\ results'[i] # results[i]
                       => /\ i = idx /\ idx' = idx + 1
                          /\ Untouched(results[i])
                          /\ Qualifies(results[i])
                 /\ (results'[i].status_code # NoStatus /\ results'[i].status_code < 400)
                       => Untouched(results'[i])]_vars

\* A batch is done: the first result, with status 200, is as check_url
\* made it; the second, a 404, got its suggestion and kept its finding
C24_Witness ==
    /\ phase = "done"
    /\ Len(results) = 2
    /\ results[1].status_code = 200 /\ Untouched(results[1])
    /\ results[2].status_code = 404 /\ ~Untouched(results[2])
    /\ SameFinding(check_url(request.urls[2], outcomes[2], results[2].checked_at),
                   results[2])

(***************************************************************************)
(* The signals of the score, one by one                                    *)
(***************************************************************************)
SegmentsOf(url) == Segments(DecodedPath(url))

\* 0.40 * |intersection| / max(|broken segments|, |candidate segments|),
\* zero if either side has no segments: the segments of each side taken as
\* the set that is intersected, which is what gives equal segments 0.40
OverlapAsStated(bs, cs) ==
    IF bs = <<>> \/ cs = <<>> THEN Zero
    ELSE RMul(<<2, 5>>, Rat(Cardinality(Range(bs) \cap Range(cs)),
                            Max(Cardinality(Range(bs)), Cardinality(Range(cs)))))

\* C25: the segment-overlap signal of a candidate is 0.40 * |intersection of
\* broken segments and candidate segments| / max(|broken segments|,
\* |candidate segments|), zero if either URL has no path segments; a
\* candidate whose segments are exactly those of the broken URL gets 0.40.
C25_SegmentOverlap ==
    \A i \in DOMAIN sitemap_urls :
        /\ SegmentOverlap(SegmentsOf(broken_url), SegmentsOf(sitemap_urls[i]))
              = OverlapAsStated(SegmentsOf(broken_url), SegmentsOf(sitemap_urls[i]))
        /\ (SegmentsOf(broken_url) # <<>>
               /\ SegmentsOf(sitemap_urls[i]) = SegmentsOf(broken_url))
              => SegmentOverlap(SegmentsOf(broken_url), SegmentsOf(sitemap_urls[i]))
                   = <<2, 5>>

\* One sub-bonus: granted when both sides satisfy it
Granted(onBroken, onCandidate, bonus) == IF onBroken /\ onCandidate THEN bonus ELSE Zero

HasSegment(segs, word) == \E i \in DOMAIN segs : segs[i] = word

HasSegmentWith(segs, word) == \E i \in DOMAIN segs : Contains(segs[i], word)

\* +0.15 for "blog", +0.10 for "service", +0.10 for "categor"
BonusAsStated(bs, cs) ==
    RAdd(Granted(HasSegment(bs, StrBlog), HasSegment(cs, StrBlog), <<3, 20>>),
    RAdd(Granted(HasSegmentWith(bs, StrService), HasSegmentWith(cs, StrService), <<1, 10>>),
         Granted(HasSegmentWith(bs, StrCategor), HasSegmentWith(cs, StrCategor), <<1, 10>>)))

\* C26: the keyword bonus of a candidate is the sum of three sub-bonuses,
\* each granted only when the broken URL and the candidate both satisfy it:
\* +0.15 for a segment equal to "blog", +0.10 for a segment containing
\* "service", +0.10 for a segment containing "categor"; a keyword on one
\* side alone adds nothing, and the bonus is at most 0.35.
C26_KeywordBonus ==
    \A i \in DOMAIN sitemap_urls :
        /\ KeywordBonus(SegmentsOf(broken_url), SegmentsOf(sitemap_urls[i]))
              = BonusAsStated(SegmentsOf(broken_url), SegmentsOf(sitemap_urls[i]))
        /\ RLeq(KeywordBonus(SegmentsOf(broken_url), SegmentsOf(sitemap_urls[i])),
                <<7, 20>>)

\* /category/seo-services was matched against /services/seo and
\* /blog/new-post: the first shares "service" and gets 0.10, "categor" being
\* on the broken side alone; the second, with "blog" on its side alone, 0
C26_Witness ==
    /\ redirect # Pending
    /\ broken_url = CategorySeoServices
    /\ sitemap_urls = <<ServicesSeo, New>>
    /\ KeywordBonus(SegmentsOf(broken_url), SegmentsOf(ServicesSeo)) = <<1, 10>>
    /\ KeywordBonus(SegmentsOf(broken_url), SegmentsOf(New)) = Zero

(***************************************************************************)
(* The counters of the summary as classes of results                       *)
(***************************************************************************)
\* The counters a result is counted in
CountedIn(result) ==
    {c \in {"status_404", "status_200", "errors"} :
        \/ c = "status_404" /\ result.is_404
        \/ c = "status_200" /\ result.status_code = 200
        \/ c = "errors" /\ result.error # NoError /\ result.error # ""}

\* C27: in every summary the four status counters partition the results:
\* no result is counted in more than one of status_404, status_200 and
\* errors, other_status counts the results in none of them and so is not
\* negative, and the four add up to total.
C27_CountersPartition ==
    phase = "done"
    => /\ \A i \in DOMAIN results : Cardinality(CountedIn(results[i])) <= 1
       /\ summary.other_status
             = Cardinality({i \in DOMAIN results : CountedIn(results[i]) = {}})
       /\ summary.other_status >= 0
       /\ summary.status_404 + summary.status_200 + summary.errors
             + summary.other_status = summary.total

\* Ten results of every kind: three 404, four 200, one 500, two transport
\* failures; the 500 is the one result in other_status
C27_Witness ==
    /\ phase = "done"
    /\ summary.total = 10
    /\ summary.status_404 = 3
    /\ summary.status_200 = 4
    /\ summary.errors = 2
    /\ summary.other_status = 1
    /\ WithStatus(results, 500) = 1

(***************************************************************************)
(* The two ends of a resolved result                                       *)
(***************************************************************************)
HasSuggestion(result) ==
    Has(result, "suggested_redirect") /\ Truthy(result.suggested_redirect)

HasSitemapError(result) == Has(result, "sitemap_error") /\ result.sitemap_error = TRUE

\* C28: in every batch each result with status_code >= 400 ends with a
\* non-empty suggested_redirect or with sitemap_error = True, never both, no
\* other result has either, and so with_suggestions + sitemap_errors is the
\* number of results with status_code >= 400.
C28_OneOfTwoEnds ==
    phase = "done"
    => /\ \A i \in DOMAIN results :
              IF HttpError(results[i])
              THEN HasSuggestion(results[i]) # HasSitemapError(results[i])
              ELSE ~HasSuggestion(results[i]) /\ ~HasSitemapError(results[i])
       /\ summary.with_suggestions + summary.sitemap_errors
             = Cardinality({i \in DOMAIN results : HttpError(results[i])})

\* A batch with both ends: the 404 got a suggestion from the sitemap, and
\* the 500, whose sitemap could not be fetched, the sitemap error
C28_Witness ==
    /\ phase = "done"
    /\ Len(results) = 2
    /\ results[1].status_code = 404 /\ HasSuggestion(results[1])
    /\ results[2].status_code = 500 /\ HasSitemapError(results[2])
    /\ summary.with_suggestions = 1
    /\ summary.sitemap_errors = 1

(***************************************************************************)
(* Where a suggestion comes from                                           *)
(***************************************************************************)
\* C29: a suggested_redirect that is not null is an element of the list
\* fetch_sitemap returned for the result's sitemap URL, or base_domain + "/"
\* of the URL inspected; the resolver gives no other target.
C29_SuggestionFromSitemap ==
    \A i \in DOMAIN results :
        (~IsException(results[i]) /\ Has(results[i], "suggested_redirect")
           /\ results[i].suggested_redirect # None)
        => /\ i \in DOMAIN resolved
           /\ \/ results[i].suggested_redirect \in Range(resolved[i].fetched_urls)
              \/ results[i].suggested_redirect
                    = BaseDomain(resolved[i].url_to_check) \o <<"/">>

\* One result got a URL of the sitemap, the other, on a list without a
\* match for it, the homepage of its host
C29_Witness ==
    /\ phase = "done"
    /\ Len(results) = 2
    /\ 1 \in DOMAIN resolved /\ 2 \in DOMAIN resolved
    /\ HasSuggestion(results[1])
    /\ results[1].suggested_redirect \in Range(resolved[1].fetched_urls)
    /\ HasSuggestion(results[2])
    /\ results[2].suggested_redirect \notin Range(resolved[2].fetched_urls)
    /\ results[2].suggested_redirect = BaseDomain(resolved[2].url_to_check) \o <<"/">>

(***************************************************************************)
(* A batch served by a process that has served others.  The dicts are the  *)
(* module's, so the loop over the results may begin, at time 1, with the   *)
(* entry an earlier batch wrote at time 0.  Two failing results have been  *)
(* gathered.                                                               *)
(***************************************************************************)
\* The dicts as the loop finds them: empty, or with the entry for
\* /sitemap.xml of a fetch that gave URLs, or of one that failed
EarlierEntries == {<<>>, <<<<New, About>>>>, <<<<>>>>}

StoreLeft(earlier) ==
    /\ sitemap_cache = [u \in {SitemapXml : i \in DOMAIN earlier} |-> earlier[1]]
    /\ sitemap_cache_time = [u \in {SitemapXml : i \in DOMAIN earlier} |-> 0]
    /\ lastNet = [u \in {SitemapXml : i \in DOMAIN earlier} |->
                     [at |-> 0, urls |-> earlier[1], failed |-> earlier[1] = <<>>]]
    /\ call = NoCall

InitWarm ==
    /\ now = 1 /\ MatchIdle
    /\ \E earlier \in EarlierEntries : StoreLeft(earlier)
    /\ phase = "resolving"
    /\ request = [urls |-> <<Old, Shopping>>, max_workers |-> MaxWorkers,
                  sitemap_url |-> None]
    /\ \E second \in {Response(404, Shopping), Response(500, EnBlog)} :
           /\ outcomes = <<Response(404, Old), second>>
           /\ results = <<check_url(Old, Response(404, Old), 0),
                          check_url(Shopping, second, 0)>>
    /\ checks = <<"done", "done">>
    /\ sent = <<1, 1>>
    /\ handlers = <<>> /\ loop = 0
    /\ idx = 1
    /\ resolved = <<>>
    /\ summary = NoSummary

NextWarm == Tick \/ ResolveNext \/ Summarize

SpecWarm == InitWarm /\ [][NextWarm]_vars

\* Two results of the batch were resolved on the same sitemap URL, i first
SameSitemap(i, j) ==
    /\ i \in DOMAIN resolved /\ j \in DOMAIN resolved
    /\ i < j
    /\ resolved[i].sitemap_url = resolved[j].sitemap_url

\* Result j was resolved on the list result i was resolved on, without a
\* request, and ended as result i did
Reused(i, j) ==
    /\ resolved[j].requests = <<>>
    /\ resolved[j].fetched_urls = resolved[i].fetched_urls
    /\ HasSitemapError(results[j]) = HasSitemapError(results[i])

\* C30 as stated: in a batch whose loop over the results takes less than
\* 300 seconds, of the failing results with the same sitemap URL only the
\* first may contact the network; every later one reuses the cached list,
\* the empty list of a failed fetch too, and ends as the first did.
C30_OnlyFirstFetches ==
    now - 1 < TTL
    => \A i \in DOMAIN results : \A j \in DOMAIN results :
           SameSitemap(i, j) => Reused(i, j)

\* C30, amended: in such a batch the network is contacted for a sitemap URL
\* while resolving at most one of the failing results that have it, and
\* every later one reuses the list cached then, the empty list of a failed
\* fetch too, and ends as that one did; that one is the first of them when
\* the cache has no entry for the sitemap URL as the loop comes to it.
C30_OneFetchPerBatch ==
    [][/\ now' - 1 < TTL
          => \A i \in DOMAIN results' : \A j \in DOMAIN results' :
                 (/\ i \in DOMAIN resolved' /\ j \in DOMAIN resolved'
                  /\ i < j
                  /\ resolved'[i].sitemap_url = resolved'[j].sitemap_url
                  /\ resolved'[i].requests # <<>>)
                 => /\ resolved'[j].requests = <<>>
                    /\ resolved'[j].fetched_urls = resolved'[i].fetched_urls
                    /\ HasSitemapError(results'[j]) = HasSitemapError(results'[i])
       /\ \A k \in DOMAIN resolved' :
              (k \notin DOMAIN resolved
                 /\ resolved'[k].sitemap_url \notin DOMAIN sitemap_cache)
              => resolved'[k].requests # <<>>]_vars

\* The cache was empty; the fetch for the first result failed, 299 seconds
\* later the second got the cached empty list, and both the sitemap error
C30_Witness ==
    /\ now - 1 < TTL
    /\ SameSitemap(1, 2)
    /\ resolved[1].requests # <<>>
    /\ resolved[1].fetched_urls = <<>>
    /\ Reused(1, 2)
    /\ HasSitemapError(results[2])
    /\ sitemap_cache_time[resolved[1].sitemap_url] = 1
    /\ now = TTL

=============================================================================
